---- MODULE Spec2Model ----
(***************************************************************************)
(* TapCoin server (server.js): the in-memory progress store, the rate      *)
(* limiter, the initData verifier, the tap (sync) handler and the          *)
(* leaderboard, as a state machine driven by HTTP requests and by the      *)
(* wall clock read through Date.now().                                     *)
(*                                                                         *)
(* Node runs every handler to completion on one thread, so each request    *)
(* handler is one atomic action.                                           *)
(***************************************************************************)
EXTENDS Integers, Sequences, FiniteSets, TLC

(***************************************************************************)
(* Program constants.                                                      *)
(***************************************************************************)
CooldownMs == 500
maxCoinsPerBatch == 50
LeaderboardCap == 100
Level2Coins == 1000
Level3Coins == 10000
Level4Coins == 50000
Level5Coins == 100000

(***************************************************************************)
(* Bounds of the model.                                                    *)
(***************************************************************************)
\* The clock is read in steps of half a cooldown.
TickStep == CooldownMs \div 2
\* Date.now() at process start; any real clock is far past one cooldown.
StartTime == 2 * CooldownMs
\* Number of clock steps in the request mix of Spec.
MaxTicks == 2
\* Number of cooldowns the single-user run of SpecGrind lasts.
GrindSyncs == 2002
\* Largest argument calculateLevel is tabulated on in SpecLevel.
MaxLevelArg == 100100

(***************************************************************************)
(* JavaScript numbers.  A number is NaN or a value n + (half ? 0.5 : 0).    *)
(* Stored coins are always integral (half = FALSE) or NaN.                 *)
(***************************************************************************)
Num(n) == [nan |-> FALSE, n |-> n, half |-> FALSE]
NaN == [nan |-> TRUE, n |-> 0, half |-> FALSE]

\* a + b on integral numbers; NaN is absorbing.
JsAdd(a, b) == IF a.nan \/ b.nan THEN NaN ELSE Num(a.n + b.n)
\* a - b on integral numbers.
JsSub(a, b) == IF a.nan \/ b.nan THEN NaN ELSE Num(a.n - b.n)
\* a >= k for an integer literal k; every comparison with NaN is false.
JsGe(a, k) == ~a.nan /\ a.n >= k
\* Math.floor
MathFloor(a) == IF a.nan THEN NaN ELSE Num(a.n)
\* Math.max(k, a) and Math.min(a, k) for an integer literal k; NaN propagates.
MathMax(k, a) == IF a.nan THEN NaN ELSE IF a.n >= k THEN Num(a.n) ELSE Num(k)
MathMin(a, k) == IF a.nan THEN NaN ELSE IF a.n <= k THEN Num(a.n) ELSE Num(k)

(***************************************************************************)
(* JSON values as they come out of JSON.parse, for the coins field.        *)
(*   t = "undef" (field absent), "null", "bool", "num", "str", "arr", "obj"*)
(***************************************************************************)
JUndef == [t |-> "undef", n |-> 0, half |-> FALSE, s |-> ""]
JNull == [t |-> "null", n |-> 0, half |-> FALSE, s |-> ""]
JBool(b) == [t |-> "bool", n |-> IF b THEN 1 ELSE 0, half |-> FALSE, s |-> ""]
JNum(n) == [t |-> "num", n |-> n, half |-> FALSE, s |-> ""]
JNumHalf(n) == [t |-> "num", n |-> n, half |-> TRUE, s |-> ""]
JStr(s) == [t |-> "str", n |-> 0, half |-> FALSE, s |-> s]
JEmptyArr == [t |-> "arr", n |-> 0, half |-> FALSE, s |-> ""]
JEmptyObj == [t |-> "obj", n |-> 0, half |-> FALSE, s |-> ""]

\* !v is false: the JavaScript truthiness of a JSON value.
Truthy(v) ==
    CASE v.t = "undef" -> FALSE
      [] v.t = "null" -> FALSE
      [] v.t = "bool" -> v.n = 1
      [] v.t = "num" -> v.n # 0 \/ v.half
      [] v.t = "str" -> v.s # ""
      [] OTHER -> TRUE

\* StringToNumber on the strings of the model.
StringToNumber(s) ==
    CASE s = "" -> Num(0)
      [] s = "30" -> Num(30)
      [] s = "70" -> Num(70)
      [] OTHER -> NaN

\* ToNumber, the conversion Math.floor applies to its argument.
ToNumber(v) ==
    CASE v.t = "undef" -> NaN
      [] v.t = "null" -> Num(0)
      [] v.t = "bool" -> Num(v.n)
      [] v.t = "num" -> [nan |-> FALSE, n |-> v.n, half |-> v.half]
      [] v.t = "str" -> StringToNumber(v.s)
      [] v.t = "arr" -> Num(0)
      [] OTHER -> NaN


(***************************************************************************)
(* State.                                                                  *)
(***************************************************************************)
VARIABLES
    BOT_TOKEN,      \* process.env.BOT_TOKEN || '', fixed for the process lifetime
    users,          \* the users Map: its records in insertion order
    rateLimits,     \* the rateLimits Map: userId -> Date.now() of the last admitted sync
    now,            \* the value Date.now() returns
    req,            \* the request handled last, and the Date.now() it was handled at
    res,            \* the response sent last
    usersPre,       \* history: users as it was when the last request arrived
    rateLimitsPre,  \* history: rateLimits as it was when the last request arrived
    okTimes,        \* history: per userId, the Date.now() of every sync answered 200
    levelIn,        \* SpecLevel: the argument calculateLevel is applied to
    levelOut,       \* SpecLevel: the level it returned, 0 before the call
    inflight,       \* SpecFlight: per connection, the POST /api/tap being received
    credited,       \* SpecFlight history: per userId, the clamped deltas answered 200, summed
    throttled       \* SpecRetry history: per userId, the number of 429 answers so far

vars == <<BOT_TOKEN, users, rateLimits, now, req, res, usersPre, rateLimitsPre, okTimes,
          levelIn, levelOut, inflight, credited, throttled>>

(***************************************************************************)
(* Inputs.                                                                 *)
(***************************************************************************)
\* userIds that tap requests name; "" stands for an absent or empty userId.
\* userIds are strings, as the data they key is; a userId that is a JSON array
\* or object would be a new Map key on every request.
UserIds == {"u1", "u2"}
\* userIds a GET /api/user/<id> path carries
PathIds == UserIds
Tokens == {"", "tok"}

(***************************************************************************)
(* The users Map.                                                          *)
(***************************************************************************)
\* users.has(userId)
Has(us, userId) == \E i \in 1..Len(us) : us[i].userId = userId

\* position of the record keyed userId
IndexOf(us, userId) == CHOOSE i \in 1..Len(us) : us[i].userId = userId

\* users.get(userId), for a key the Map has
Get(us, userId) == us[IndexOf(us, userId)]

\* the record getUser creates for a userId seen for the first time
NewUser(userId, t) ==
    [userId |-> userId, userName |-> "Player", coins |-> Num(0),
     totalTaps |-> Num(0), level |-> 1, tapPower |-> 1, lastTap |-> t]

\* getUser as it would be if it stored a fresh record on every call
getUser_Reset(us, userId, t) ==
    IF ~Has(us, userId) THEN Append(us, NewUser(userId, t))
    ELSE [us EXCEPT ![IndexOf(us, userId)] = NewUser(userId, t)]

\* the users Map after getUser(userId) called at time t
getUser(us, userId, t) ==
    IF ~Has(us, userId) THEN Append(us, NewUser(userId, t)) ELSE us

\* calculateLevel as it would be with > for >=
calculateLevel_Strict(coins) ==
    IF JsGe(coins, Level5Coins + 1) THEN 5
    ELSE IF JsGe(coins, Level4Coins + 1) THEN 4
    ELSE IF JsGe(coins, Level3Coins + 1) THEN 3
    ELSE IF JsGe(coins, Level2Coins + 1) THEN 2
    ELSE 1

calculateLevel(coins) ==
    IF JsGe(coins, Level5Coins) THEN 5
    ELSE IF JsGe(coins, Level4Coins) THEN 4
    ELSE IF JsGe(coins, Level3Coins) THEN 3
    ELSE IF JsGe(coins, Level2Coins) THEN 2
    ELSE 1

(***************************************************************************)
(* validateInitData.  An initData string is modelled by what               *)
(* URLSearchParams makes of it: its entries other than hash, as [k, v]     *)
(* records in the order written, and the value of its hash entry, if any.  *)
(* A keyed hash is modelled symbolically, as the triple of its algorithm,  *)
(* key and message; a hex digest carries the number of characters altered  *)
(* after it was computed.                                                  *)
(***************************************************************************)
Hmac(key, data) == <<"sha256", key, data>>
Hex(digest) == [digest |-> digest, altered |-> 0]

KeyOrder == <<"auth_date", "query_id", "user">>
KeyRank(k) == CHOOSE i \in 1..Len(KeyOrder) : KeyOrder[i] = k
\* a.localeCompare(b) on the keys of the model
localeCompare(a, b) == KeyRank(a) - KeyRank(b)

RECURSIVE InsertByKey(_, _)
InsertByKey(sorted, e) ==
    IF sorted = <<>> THEN <<e>>
    ELSE IF localeCompare(sorted[Len(sorted)].k, e.k) > 0
         THEN Append(InsertByKey(SubSeq(sorted, 1, Len(sorted) - 1), e), sorted[Len(sorted)])
         ELSE Append(sorted, e)

RECURSIVE SortByKey(_)
\* [...params.entries()].sort(([a], [b]) => a.localeCompare(b)), a stable sort
SortByKey(entries) ==
    IF entries = <<>> THEN <<>>
    ELSE InsertByKey(SortByKey(SubSeq(entries, 1, Len(entries) - 1)), entries[Len(entries)])

\* .map(([k, v]) => `${k}=${v}`).join('\n')
DataCheckString(entries) == [i \in 1..Len(SortByKey(entries)) |->
                                <<SortByKey(entries)[i].k, "=", SortByKey(entries)[i].v>>]

\* the empty string: !initData holds
NoInitData == [entries |-> <<>>, hash |-> <<>>]
InitDataTruthy(initData) == initData.entries # <<>> \/ initData.hash # <<>>

computedHash(initData, token) ==
    Hex(Hmac(Hmac("WebAppData", token), DataCheckString(initData.entries)))

\* validateInitData as it would be if it compared the digests loosely (a prefix, or
\* ignoring case), so that a hash with a changed character still matched
validateInitData_Loose(initData, token) ==
    IF token = "" \/ ~InitDataTruthy(initData) THEN TRUE
    ELSE /\ initData.hash # <<>>
         /\ initData.hash[1].digest = computedHash(initData, token).digest

\* validateInitData as it would be without the !initData half of the skip
validateInitData_NoSkip(initData, token) ==
    IF token = "" THEN TRUE
    ELSE initData.hash = <<computedHash(initData, token)>>

validateInitData(initData, token) ==
    IF token = "" \/ ~InitDataTruthy(initData) THEN TRUE
    ELSE initData.hash = <<computedHash(initData, token)>>

(***************************************************************************)
(* checkRateLimit.                                                         *)
(***************************************************************************)
\* rateLimits.get(userId) || 0
LastSync(rl, userId) == IF userId \in DOMAIN rl THEN rl[userId] ELSE 0

\* the value checkRateLimit returns at time t
checkRateLimit(rl, userId, t) == ~(t - LastSync(rl, userId) < CooldownMs)

\* checkRateLimit as it would be with one timestamp shared by every userId
RateLimitsAfter_Global(rl, userId, t) == [k \in DOMAIN rl \cup {userId} |-> t]

\* checkRateLimit as it would be if it forgot rateLimits.set
RateLimitsAfter_Forgot(rl, userId, t) == rl

\* rateLimits.set(userId, now), reached when the call is admitted
RateLimitsAfter(rl, userId, t) ==
    [k \in DOMAIN rl \cup {userId} |-> IF k = userId THEN t ELSE rl[k]]


(***************************************************************************)
(* Responses: sendJSON(res, status, data).  The JSON payload is an error   *)
(* string, or a list of records (one record for a user, the entries for    *)
(* the leaderboard).                                                       *)
(***************************************************************************)
sendJSON(status, error, data) == [status |-> status, error |-> error, data |-> data]

(***************************************************************************)
(* handleTap.                                                              *)
(***************************************************************************)
\* safeCoins as it would be without the ceiling
safeCoins_NoCeiling(coins) == MathMax(0, MathFloor(ToNumber(coins)))

\* const safeCoins = Math.min(Math.max(0, Math.floor(coins)), maxCoinsPerBatch)
safeCoins(coins) == MathMin(MathMax(0, MathFloor(ToNumber(coins))), maxCoinsPerBatch)

\* if (!userId || !coins)
MissingData(body) == body.userId = "" \/ ~Truthy(body.coins)

\* the merge as it would be with the level computed before the coins are added
Merge_StaleLevel(user, userName, safe, t) ==
    [user EXCEPT !.userName = IF userName # "" THEN userName ELSE user.userName,
                 !.coins = JsAdd(user.coins, safe),
                 !.totalTaps = JsAdd(user.totalTaps, safe),
                 !.level = calculateLevel(user.coins),
                 !.lastTap = t]

\* the merge as it would be if it always took the userName of the request
Merge_OverwriteName(user, userName, safe, t) ==
    [user EXCEPT !.userName = userName,
                 !.coins = JsAdd(user.coins, safe),
                 !.totalTaps = JsAdd(user.totalTaps, safe),
                 !.level = calculateLevel(JsAdd(user.coins, safe)),
                 !.lastTap = t]

\* lines 96-100: the record after the merge
Merge(user, userName, safe, t) ==
    [user EXCEPT !.userName = IF userName # "" THEN userName ELSE user.userName,
                 !.coins = JsAdd(user.coins, safe),
                 !.totalTaps = JsAdd(user.totalTaps, safe),
                 !.level = calculateLevel(JsAdd(user.coins, safe)),
                 !.lastTap = t]

\* the users Map after the live record of userId was assigned to
Put(us, userId, rec) == [us EXCEPT ![IndexOf(us, userId)] = rec]

\* handleTap as it would be if it fetched the record before the gates
handleTap_FetchFirst(body, us, rl, t, token) ==
    IF MissingData(body)
    THEN [users |-> us, rateLimits |-> rl, res |-> sendJSON(400, "Missing data", <<>>)]
    ELSE IF ~validateInitData(body.initData, token)
    THEN [users |-> getUser(us, body.userId, t), rateLimits |-> rl,
          res |-> sendJSON(403, "Invalid initData", <<>>)]
    ELSE IF ~checkRateLimit(rl, body.userId, t)
    THEN [users |-> getUser(us, body.userId, t), rateLimits |-> rl,
          res |-> sendJSON(429, "Too fast", <<>>)]
    ELSE LET us1 == getUser(us, body.userId, t)
             user == Merge(Get(us1, body.userId), body.userName, safeCoins(body.coins), t)
         IN [users |-> Put(us1, body.userId, user),
             rateLimits |-> RateLimitsAfter(rl, body.userId, t),
             res |-> sendJSON(200, "", <<user>>)]

\* handleTap as it would be if a throttled attempt restarted the cooldown
handleTap_ThrottleExtends(body, us, rl, t, token) ==
    IF MissingData(body)
    THEN [users |-> us, rateLimits |-> rl, res |-> sendJSON(400, "Missing data", <<>>)]
    ELSE IF ~validateInitData(body.initData, token)
    THEN [users |-> us, rateLimits |-> rl, res |-> sendJSON(403, "Invalid initData", <<>>)]
    ELSE IF ~checkRateLimit(rl, body.userId, t)
    THEN [users |-> us, rateLimits |-> RateLimitsAfter(rl, body.userId, t),
          res |-> sendJSON(429, "Too fast", <<>>)]
    ELSE LET us1 == getUser(us, body.userId, t)
             user == Merge(Get(us1, body.userId), body.userName, safeCoins(body.coins), t)
         IN [users |-> Put(us1, body.userId, user),
             rateLimits |-> RateLimitsAfter(rl, body.userId, t),
             res |-> sendJSON(200, "", <<user>>)]

\* handleTap as it would be if it called checkRateLimit before validateInitData
handleTap_LimitFirst(body, us, rl, t, token) ==
    IF MissingData(body)
    THEN [users |-> us, rateLimits |-> rl, res |-> sendJSON(400, "Missing data", <<>>)]
    ELSE IF ~checkRateLimit(rl, body.userId, t)
    THEN [users |-> us, rateLimits |-> rl, res |-> sendJSON(429, "Too fast", <<>>)]
    ELSE IF ~validateInitData(body.initData, token)
    THEN [users |-> us, rateLimits |-> RateLimitsAfter(rl, body.userId, t),
          res |-> sendJSON(403, "Invalid initData", <<>>)]
    ELSE LET us1 == getUser(us, body.userId, t)
             user == Merge(Get(us1, body.userId), body.userName, safeCoins(body.coins), t)
         IN [users |-> Put(us1, body.userId, user),
             rateLimits |-> RateLimitsAfter(rl, body.userId, t),
             res |-> sendJSON(200, "", <<user>>)]

\* handleTap(body, res) at time t: the two Maps afterwards and the response
handleTap(body, us, rl, t, token) ==
    IF MissingData(body)
    THEN [users |-> us, rateLimits |-> rl, res |-> sendJSON(400, "Missing data", <<>>)]
    ELSE IF ~validateInitData(body.initData, token)
    THEN [users |-> us, rateLimits |-> rl, res |-> sendJSON(403, "Invalid initData", <<>>)]
    ELSE IF ~checkRateLimit(rl, body.userId, t)
    THEN [users |-> us, rateLimits |-> rl, res |-> sendJSON(429, "Too fast", <<>>)]
    ELSE LET us1 == getUser(us, body.userId, t)
             user == Merge(Get(us1, body.userId), body.userName, safeCoins(body.coins), t)
         IN [users |-> Put(us1, body.userId, user),
             rateLimits |-> RateLimitsAfter(rl, body.userId, t),
             res |-> sendJSON(200, "", <<user>>)]

\* the 'end' callback of POST /api/tap: JSON.parse, handleTap, and the catch
onEnd(body, us, rl, t, token) ==
    IF body.kind = "invalid" \/ body.kind = "null"
    THEN [users |-> us, rateLimits |-> rl, res |-> sendJSON(400, "Invalid JSON", <<>>)]
    ELSE handleTap(body, us, rl, t, token)

(***************************************************************************)
(* handleLeaderboard.                                                      *)
(***************************************************************************)
\* (a, b) => b.coins - a.coins, as Array.prototype.sort reads it: NaN counts as +0
SortCompare(a, b) ==
    IF JsSub(b.coins, a.coins).nan THEN 0 ELSE JsSub(b.coins, a.coins).n

RECURSIVE InsertByCoins(_, _)
InsertByCoins(sorted, u) ==
    IF sorted = <<>> THEN <<u>>
    ELSE IF SortCompare(sorted[Len(sorted)], u) > 0
         THEN Append(InsertByCoins(SubSeq(sorted, 1, Len(sorted) - 1), u), sorted[Len(sorted)])
         ELSE Append(sorted, u)

RECURSIVE SortByCoins(_)
\* [...users.values()].sort(...): a stable sort of the records in insertion order
SortByCoins(us) ==
    IF us = <<>> THEN <<>>
    ELSE InsertByCoins(SortByCoins(SubSeq(us, 1, Len(us) - 1)), us[Len(us)])

\* .slice(0, 100)
Slice(s, n) == SubSeq(s, 1, IF Len(s) < n THEN Len(s) ELSE n)

\* .map(u => ({userId, userName, coins, level}))
Entry(u) == [userId |-> u.userId, userName |-> u.userName, coins |-> u.coins, level |-> u.level]

handleLeaderboard(us) ==
    LET top == Slice(SortByCoins(us), LeaderboardCap)
    IN sendJSON(200, "", [i \in 1..Len(top) |-> Entry(top[i])])

\* the users Map as it would be left if the sort worked on the Map's own order
LeaderboardUsersAfter_InPlace(us) == SortByCoins(us)

\* [...users.values()] is a fresh array: sort, slice and map leave the Map alone
LeaderboardUsersAfter(us) == us


(***************************************************************************)
(* Request inputs.                                                         *)
(***************************************************************************)
\* what JSON.parse makes of a request body that is a JSON object
Body(userId, userName, coins, initData) ==
    [kind |-> "object", userId |-> userId, userName |-> userName,
     coins |-> coins, initData |-> initData]
\* a body JSON.parse throws on, and the body "null", which handleTap's destructuring throws on
InvalidBody == [Body("", "", JUndef, NoInitData) EXCEPT !.kind = "invalid"]
NullBody == [Body("", "", JUndef, NoInitData) EXCEPT !.kind = "null"]
NoBody == [Body("", "", JUndef, NoInitData) EXCEPT !.kind = "none"]

\* initData payloads: fields written out of key order, signed or not
Fields == <<[k |-> "user", v |-> "u1"], [k |-> "auth_date", v |-> "1"]>>
SignedBy(token) == [entries |-> Fields, hash |-> <<computedHash([entries |-> Fields], token)>>]
Unsigned == [entries |-> Fields, hash |-> <<>>]
InitDatas == {NoInitData, SignedBy("tok"), SignedBy("other"), Unsigned}

CoinsInputs == {JUndef, JNum(0), JNum(-5), JNumHalf(0), JNum(30), JNum(9999), JStr("abc")}
UserNames == {"", "Bob"}

\* the bodies of the request mix: every coins input for u1, the accepted ones for u2,
\* a display name, the initData payloads, a missing userId, and unparseable bodies
TapBodies ==
    {Body("u1", "", c, NoInitData) : c \in CoinsInputs}
    \cup {Body("u2", "", c, NoInitData) : c \in {JNull, JNum(30), JNum(9999), JStr("abc")}}
    \cup {Body("u1", "", JNum(30), d) : d \in InitDatas}
    \cup {Body("u1", "Bob", JNum(30), NoInitData), Body("", "", JNum(30), NoInitData)}
    \cup {InvalidBody, NullBody}

(***************************************************************************)
(* A POST /api/tap on the wire.  The request text reaches the server in    *)
(* chunks; each request has a body string of its own, which the 'data'     *)
(* callback appends to and the 'end' callback parses.                      *)
(***************************************************************************)
Connections == {"a", "b"}
Idle == [open |-> FALSE, text |-> <<>>, sent |-> 0, body |-> <<>>]

\* the text of a request whose JSON is json, cut into n chunks
Chunks(json, n) == [i \in 1..n |-> [of |-> json, part |-> i, parts |-> n]]

\* let body = ''
Received(text) == [open |-> TRUE, text |-> text, sent |-> 0, body |-> <<>>]

\* body += chunk
onData(request) ==
    [request EXCEPT !.body = Append(request.body, request.text[request.sent + 1]),
                    !.sent = request.sent + 1]

\* JSON.parse(body): the JSON the chunks were cut from, if they are all there in order
JSONparse(body) ==
    IF body # <<>> /\ body = Chunks(body[1].of, body[1].parts) THEN body[1].of ELSE InvalidBody

(***************************************************************************)
(* The state machine.                                                      *)
(***************************************************************************)
Init ==
    /\ BOT_TOKEN \in Tokens
    /\ users = <<>>
    /\ rateLimits = <<>>
    /\ now = StartTime
    /\ req = [op |-> "none", userId |-> "", body |-> NoBody, at |-> StartTime]
    /\ res = sendJSON(0, "", <<>>)
    /\ usersPre = <<>>
    /\ rateLimitsPre = <<>>
    /\ okTimes = [u \in UserIds |-> <<>>]
    /\ levelIn = Num(0)
    /\ levelOut = 0
    /\ inflight = [c \in Connections |-> Idle]
    /\ credited = [u \in UserIds |-> 0]
    /\ throttled = [u \in UserIds |-> 0]

\* the wall clock moves on
Advance(maxTicks) ==
    /\ now + TickStep <= StartTime + maxTicks * TickStep
    /\ now' = now + TickStep
    /\ UNCHANGED <<BOT_TOKEN, users, rateLimits, req, res, usersPre, rateLimitsPre, okTimes,
                    levelIn, levelOut, inflight, credited, throttled>>

Tick == Advance(MaxTicks)

\* GET /api/user/:id
GetUser(userId) ==
    /\ users' = getUser(users, userId, now)
    /\ res' = sendJSON(200, "", <<Get(users', userId)>>)
    /\ req' = [op |-> "getUser", userId |-> userId, body |-> NoBody, at |-> now]
    /\ usersPre' = users
    /\ rateLimitsPre' = rateLimits
    /\ UNCHANGED <<BOT_TOKEN, rateLimits, now, okTimes, levelIn, levelOut,
                    inflight, credited, throttled>>

\* the 'end' callback of a POST /api/tap whose body parsed to body
TapHandled(body) ==
    LET out == onEnd(body, users, rateLimits, now, BOT_TOKEN)
    IN /\ users' = out.users
       /\ rateLimits' = out.rateLimits
       /\ res' = out.res
       /\ req' = [op |-> "tap", userId |-> body.userId, body |-> body, at |-> now]
       /\ usersPre' = users
       /\ rateLimitsPre' = rateLimits
       /\ okTimes' = IF out.res.status = 200
                     THEN [okTimes EXCEPT ![body.userId] = Append(@, now)]
                     ELSE okTimes
       /\ UNCHANGED <<BOT_TOKEN, now, levelIn, levelOut>>

\* POST /api/tap, from the request to the response sent by the 'end' callback.
\* The 'data' callbacks in between touch only the body of their own request.
PostTap(body) == TapHandled(body) /\ UNCHANGED <<inflight, credited, throttled>>

\* GET /api/leaderboard
GetLeaderboard ==
    /\ res' = handleLeaderboard(users)
    /\ req' = [op |-> "leaderboard", userId |-> "", body |-> NoBody, at |-> now]
    /\ usersPre' = users
    /\ rateLimitsPre' = rateLimits
    /\ users' = LeaderboardUsersAfter(users)
    /\ UNCHANGED <<BOT_TOKEN, rateLimits, now, okTimes, levelIn, levelOut,
                    inflight, credited, throttled>>

RequestUser == \E userId \in PathIds : GetUser(userId)
RequestTap == \E body \in TapBodies : PostTap(body)

Next == Tick \/ RequestUser \/ RequestTap \/ GetLeaderboard

Spec == Init /\ [][Next]_vars


(***************************************************************************)
(* SpecGrind: one client that syncs as much as the server credits, once    *)
(* per cooldown, long enough to pass every level threshold, and may at any *)
(* time send a coins value that is no number.  The clock moves on by a     *)
(* cooldown once the sync of the current instant is in.                    *)
(***************************************************************************)
GrindBody == Body("u1", "", JNum(9999), NoInitData)

GrindTick ==
    /\ LastSync(rateLimits, "u1") = now
    /\ now + CooldownMs <= StartTime + GrindSyncs * CooldownMs
    /\ now' = now + CooldownMs
    /\ UNCHANGED <<BOT_TOKEN, users, rateLimits, req, res, usersPre, rateLimitsPre, okTimes,
                    levelIn, levelOut, inflight, credited, throttled>>

GrindTap == PostTap(GrindBody)
GrindPoison == PostTap(Body("u1", "", JStr("abc"), NoInitData))
GrindUser == GetUser("u1")

NextGrind == GrindTick \/ GrindTap \/ GrindPoison \/ GrindUser \/ GetLeaderboard

SpecGrind == Init /\ [][NextGrind]_vars

(***************************************************************************)
(* SpecLevel: calculateLevel applied to every argument up to MaxLevelArg,  *)
(* to some negative ones and to NaN.                                       *)
(***************************************************************************)
LevelArgs == {Num(c) : c \in -3..MaxLevelArg} \cup {NaN}

InitLevel ==
    /\ BOT_TOKEN = ""
    /\ users = <<>>
    /\ rateLimits = <<>>
    /\ now = StartTime
    /\ req = [op |-> "none", userId |-> "", body |-> NoBody, at |-> StartTime]
    /\ res = sendJSON(0, "", <<>>)
    /\ usersPre = <<>>
    /\ rateLimitsPre = <<>>
    /\ okTimes = [u \in UserIds |-> <<>>]
    /\ levelIn \in LevelArgs
    /\ levelOut = 0
    /\ inflight = [c \in Connections |-> Idle]
    /\ credited = [u \in UserIds |-> 0]
    /\ throttled = [u \in UserIds |-> 0]

ApplyLevel ==
    /\ levelOut = 0
    /\ levelOut' = calculateLevel(levelIn)
    /\ UNCHANGED <<BOT_TOKEN, users, rateLimits, now, req, res, usersPre, rateLimitsPre,
                    okTimes, levelIn, inflight, credited, throttled>>

NextLevel == ApplyLevel

SpecLevel == InitLevel /\ [][NextLevel]_vars


(***************************************************************************)
(* SpecAuth: one user syncing with initData payloads as the launcher       *)
(* issues them and as an attacker alters them.  The launcher signs the     *)
(* fields in key order; a payload carries them in any order, with the hash *)
(* as issued, issued under another token, with one character changed, or   *)
(* without a hash.                                                         *)
(***************************************************************************)
\* length of a hex-encoded sha256 digest
HexLen == 64

IssuedFields ==
    <<[k |-> "auth_date", v |-> "1"], [k |-> "query_id", v |-> "q"], [k |-> "user", v |-> "u1"]>>
\* the hash the holder of token issues for IssuedFields
IssuedHash(token) ==
    [digest |-> Hmac(Hmac("WebAppData", token),
                     <<<<"auth_date", "=", "1">>, <<"query_id", "=", "q">>, <<"user", "=", "u1">>>>),
     altered |-> 0]
\* the issued hash with the character at position p changed
AlteredHash(token, p) == [IssuedHash(token) EXCEPT !.altered = p]

\* the fields in every order a query string can list them
FieldOrders == {[i \in 1..3 |-> IssuedFields[p[i]]] : p \in Permutations(1..3)}

AuthPayloads ==
    {[entries |-> e, hash |-> <<IssuedHash(t)>>] : e \in FieldOrders, t \in {"tok", "other"}}
    \cup {[entries |-> e, hash |-> <<>>] : e \in FieldOrders}
    \cup {[entries |-> IssuedFields, hash |-> <<AlteredHash("tok", p)>>] : p \in 1..HexLen}

AuthTap == \E d \in AuthPayloads : PostTap(Body("u1", "", JNum(30), d))

NextAuth == Tick \/ AuthTap

SpecAuth == Init /\ [][NextAuth]_vars

(***************************************************************************)
(* SpecFlight: POST /api/tap requests of one user received chunk by chunk  *)
(* on two connections, their 'data' and 'end' callbacks interleaved with   *)
(* each other and with the GET routes.  Every callback runs to completion  *)
(* before the next one starts.  The clock moves on by a cooldown once the  *)
(* sync of the current instant is in.                                      *)
(* SpecFlightGrind: the same with one request text, long enough for the    *)
(* user to pass the first level threshold.                                 *)
(***************************************************************************)
FlightSyncs == 3
FlightGrindSyncs == 21

\* the request texts a client sends: the JSON and the number of chunks it arrives in
FlightTexts ==
    {Chunks(Body("u1", "", JNum(9999), NoInitData), 2),
     Chunks(Body("u1", "", JNum(30), NoInitData), 1),
     Chunks(Body("u1", "", JStr("abc"), NoInitData), 1)}
FlightGrindTexts == {Chunks(GrindBody, 2)}

\* what a 200 answer to a sync of this coins value is said to credit:
\* the value floored and clamped to 0..maxCoinsPerBatch
ClampedDelta(coins) ==
    IF coins.t # "num" THEN 0
    ELSE IF coins.n < 0 THEN 0
    ELSE IF coins.n > maxCoinsPerBatch THEN maxCoinsPerBatch
    ELSE coins.n

FlightTick(syncs) ==
    /\ LastSync(rateLimits, "u1") = now
    /\ now + CooldownMs <= StartTime + syncs * CooldownMs
    /\ now' = now + CooldownMs
    /\ UNCHANGED <<BOT_TOKEN, users, rateLimits, req, res, usersPre, rateLimitsPre, okTimes,
                    levelIn, levelOut, inflight, credited, throttled>>

\* the request event of a POST /api/tap: body = '' and the two callbacks registered
FlightArrive(c, texts) ==
    /\ ~inflight[c].open
    /\ \E text \in texts : inflight' = [inflight EXCEPT ![c] = Received(text)]
    /\ UNCHANGED <<BOT_TOKEN, users, rateLimits, now, req, res, usersPre, rateLimitsPre,
                    okTimes, levelIn, levelOut, credited, throttled>>

\* req.on('data', ...)
FlightData(c) ==
    /\ inflight[c].open
    /\ inflight[c].sent < Len(inflight[c].text)
    /\ inflight' = [inflight EXCEPT ![c] = onData(@)]
    /\ UNCHANGED <<BOT_TOKEN, users, rateLimits, now, req, res, usersPre, rateLimitsPre,
                    okTimes, levelIn, levelOut, credited, throttled>>

\* req.on('end', ...)
FlightEnd(c) ==
    /\ inflight[c].open
    /\ inflight[c].sent = Len(inflight[c].text)
    /\ LET body == JSONparse(inflight[c].body)
       IN /\ TapHandled(body)
          /\ credited' = IF res'.status = 200
                         THEN [credited EXCEPT ![body.userId] = @ + ClampedDelta(body.coins)]
                         ELSE credited
    /\ inflight' = [inflight EXCEPT ![c] = Idle]
    /\ UNCHANGED throttled

FlightUser == GetUser("u1")

NextFlight ==
    \/ FlightTick(FlightSyncs)
    \/ \E c \in Connections : FlightArrive(c, FlightTexts)
    \/ \E c \in Connections : FlightData(c)
    \/ \E c \in Connections : FlightEnd(c)
    \/ FlightUser
    \/ GetLeaderboard

SpecFlight == Init /\ [][NextFlight]_vars

NextFlightGrind ==
    \/ FlightTick(FlightGrindSyncs)
    \/ \E c \in Connections : FlightArrive(c, FlightGrindTexts)
    \/ \E c \in Connections : FlightData(c)
    \/ \E c \in Connections : FlightEnd(c)
    \/ FlightUser
    \/ GetLeaderboard

SpecFlightGrind == Init /\ [][NextFlightGrind]_vars

(***************************************************************************)
(* SpecRetry: one client that keeps sending the same valid sync, also      *)
(* while it is being throttled.                                            *)
(***************************************************************************)
RetryTicks == 6
MaxRetries == 2

RetryBody == Body("u1", "", JNum(30), NoInitData)

RetryTick == Advance(RetryTicks)

RetryTap ==
    /\ TapHandled(RetryBody)
    /\ res'.status = 429 => throttled["u1"] < MaxRetries
    /\ throttled' = [throttled EXCEPT !["u1"] = IF res'.status = 429 THEN @ + 1 ELSE @]
    /\ UNCHANGED <<inflight, credited>>

NextRetry == RetryTick \/ RetryTap

SpecRetry == Init /\ [][NextRetry]_vars

(***************************************************************************)
(* SpecScenario: a fresh server and one client that looks up u1, syncs 30  *)
(* coins, repeats the sync before the cooldown is over, and syncs 9999     *)
(* coins once it is.  The clock is free between the requests.              *)
(***************************************************************************)
ScenarioTicks == 8

ScenarioTick == Advance(ScenarioTicks)

ScenarioLookup ==
    /\ req.op = "none"
    /\ GetUser("u1")

ScenarioFirstSync ==
    /\ req.op = "getUser"
    /\ PostTap(Body("u1", "", JNum(30), NoInitData))

ScenarioRepeat ==
    /\ req.op = "tap"
    /\ res.status = 200
    /\ Len(okTimes["u1"]) = 1
    /\ now - okTimes["u1"][1] < CooldownMs
    /\ PostTap(Body("u1", "", JNum(30), NoInitData))

ScenarioLastSync ==
    /\ req.op = "tap"
    /\ res.status = 429
    /\ now - okTimes["u1"][1] >= CooldownMs
    /\ PostTap(Body("u1", "", JNum(9999), NoInitData))

NextScenario ==
    ScenarioTick \/ ScenarioLookup \/ ScenarioFirstSync \/ ScenarioRepeat \/ ScenarioLastSync

SpecScenario == Init /\ [][NextScenario]_vars

(***************************************************************************)
(* Vocabulary of the claims.                                               *)
(***************************************************************************)
\* requests and their outcome
IsTap == req.op = "tap"
Accepted == IsTap /\ res.status = 200
Rejected == IsTap /\ res.status \in {400, 403, 429}

\* the coins of userId in a users Map; a userId without a record has none yet, i.e. 0
CoinsOf(us, userId) == IF Has(us, userId) THEN Get(us, userId).coins ELSE Num(0)

\* a JSON value that is a number greater than k
NumberAbove(v, k) == v.t = "num" /\ (v.n > k \/ (v.n = k /\ v.half))
\* a JSON value that is zero, negative, or no number at all
NotPositiveNumber(v) == ~NumberAbove(v, 0)

\* x = y + k as numbers (never true of NaN)
IsSum(x, y, k) == ~x.nan /\ ~y.nan /\ x.n = y.n + k
\* x >= y as numbers (never true of NaN)
NumGe(x, y) == ~x.nan /\ ~y.nan /\ x.n >= y.n

(***************************************************************************)
(* C1.  Every accepted POST /api/tap whose reported coins is a number      *)
(* greater than 50 adds exactly 50 to the user's coins.                    *)
(* The users Map can hold a record whose coins is NaN (see C5); a sync     *)
(* accepted for that user leaves coins NaN, which is not 50 more.          *)
(***************************************************************************)
C1_ClampCeiling ==
    (Accepted /\ NumberAbove(req.body.coins, maxCoinsPerBatch))
        => IsSum(CoinsOf(users, req.userId), CoinsOf(usersPre, req.userId), maxCoinsPerBatch)

(***************************************************************************)
(* C2.  Every POST /api/tap whose coins is zero, negative or not a number  *)
(* is answered 400 "Missing data" and leaves the user's coins unchanged.   *)
(* The code tests !coins, which lets negative numbers, fractions below 1   *)
(* and non-empty strings through.                                          *)
(***************************************************************************)
C2_NonPositiveRejected ==
    (IsTap /\ req.body.kind = "object" /\ NotPositiveNumber(req.body.coins))
        => /\ res.status = 400
           /\ res.error = "Missing data"
           /\ CoinsOf(users, req.userId) = CoinsOf(usersPre, req.userId)

(***************************************************************************)
(* C3.  Any two accepted syncs of one user are at least 500 ms apart, and  *)
(* an otherwise valid sync handled less than 500 ms after an accepted one  *)
(* of the same user is answered 429 "Too fast" and changes no record.      *)
(***************************************************************************)
\* the accepted syncs of the user before the last request was handled
OkBefore(userId) ==
    IF Accepted THEN SubSeq(okTimes[userId], 1, Len(okTimes[userId]) - 1) ELSE okTimes[userId]

\* the last request passes validation and verification
OtherwiseValid ==
    /\ IsTap
    /\ req.body.kind = "object"
    /\ req.userId \in UserIds
    /\ NumberAbove(req.body.coins, 0)
    /\ validateInitData(req.body.initData, BOT_TOKEN)

WithinCooldown ==
    /\ OtherwiseValid
    /\ \E i \in 1..Len(OkBefore(req.userId)) : req.at - OkBefore(req.userId)[i] < CooldownMs

C3_Throttle ==
    /\ \A u \in UserIds : \A i, j \in 1..Len(okTimes[u]) :
           i < j => okTimes[u][j] - okTimes[u][i] >= CooldownMs
    /\ WithinCooldown => /\ res.status = 429
                         /\ res.error = "Too fast"
                         /\ users = usersPre

\* a valid sync was throttled a quarter of a second after an accepted one
C3_Witness ==
    /\ WithinCooldown
    /\ res.status = 429
    /\ \E i \in 1..Len(okTimes[req.userId]) : req.at - okTimes[req.userId][i] = TickStep
    /\ ~CoinsOf(users, req.userId).nan
    /\ CoinsOf(users, req.userId).n > 0

(***************************************************************************)
(* C4.  A rejected POST /api/tap (400, 403 or 429) leaves the users Map    *)
(* exactly as it was: no record created, no field changed.                 *)
(***************************************************************************)
C4_RejectLeavesUsers == Rejected => users = usersPre

\* a sync with a bad signature for a user the server has not seen
C4_Witness ==
    /\ Rejected
    /\ res.status = 403
    /\ ~Has(users, req.userId)

(***************************************************************************)
(* C5.  Every record's coins is a non-negative integer, and no request     *)
(* makes a record's coins smaller.                                         *)
(* A coins value that is a non-empty, non-numeric string passes the !coins *)
(* test, Math.floor makes it NaN, and user.coins += NaN stores NaN.        *)
(***************************************************************************)
C5_CoinsNonNegative ==
    /\ \A i \in 1..Len(users) : ~users[i].coins.nan /\ users[i].coins.n >= 0
    /\ \A i \in 1..Len(usersPre) :
           /\ Has(users, usersPre[i].userId)
           /\ NumGe(Get(users, usersPre[i].userId).coins, usersPre[i].coins)


(***************************************************************************)
(* C6.  Every record in the users Map has level = calculateLevel(coins).   *)
(***************************************************************************)
C6_LevelFollowsCoins ==
    \A i \in 1..Len(users) : users[i].level = calculateLevel(users[i].coins)

\* a sync took the record over the last threshold
C6_Witness ==
    /\ Accepted
    /\ IsSum(CoinsOf(users, req.userId), Num(Level5Coins), 0)
    /\ Get(users, req.userId).level = 5
    /\ Get(usersPre, req.userId).level = 4

(***************************************************************************)
(* C7.  calculateLevel is the step function with thresholds 1000, 10000,   *)
(* 50000 and 100000, and never goes down as coins goes up.                 *)
(***************************************************************************)
LevelTable(n) ==
    CASE n < 1000 -> 1
      [] 1000 <= n /\ n < 10000 -> 2
      [] 10000 <= n /\ n < 50000 -> 3
      [] 50000 <= n /\ n < 100000 -> 4
      [] n >= 100000 -> 5

C7_LevelThresholds ==
    (levelOut # 0 /\ ~levelIn.nan)
        => /\ levelOut = LevelTable(levelIn.n)
           /\ levelOut <= calculateLevel(Num(levelIn.n + 1))

\* calculateLevel was applied to the last threshold itself
C7_Witness == levelOut = 5 /\ ~levelIn.nan /\ levelIn.n = 100000

(***************************************************************************)
(* C8.  The leaderboard is ordered by coins, greatest first, has at most   *)
(* 100 entries, and omits no user with more coins than an included one.    *)
(* A record whose coins is NaN (see C5) makes the comparator return NaN,   *)
(* so the sort leaves it where it stands, next to any number.              *)
(***************************************************************************)
C8_LeaderboardSorted ==
    req.op = "leaderboard"
        => /\ \A i \in 1..(Len(res.data) - 1) : NumGe(res.data[i].coins, res.data[i + 1].coins)
           /\ Len(res.data) <= LeaderboardCap
           /\ \A i \in 1..Len(users) :
                  (\E j \in 1..Len(res.data) : res.data[j].userId = users[i].userId)
                  \/ \A j \in 1..Len(res.data) : NumGe(res.data[j].coins, users[i].coins)

(***************************************************************************)
(* C9.  GET /api/user/<id> answers 200 with the record of <id>.  For an id *)
(* without a record it appends exactly one record: userName "Player",      *)
(* coins 0, totalTaps 0, level 1, tapPower 1.  For an id with a record it  *)
(* changes nothing, so a repeated GET never resets progress.               *)
(***************************************************************************)
IsDefaultRecord(rec, userId) ==
    /\ rec.userId = userId
    /\ rec.userName = "Player"
    /\ rec.coins = Num(0)
    /\ rec.totalTaps = Num(0)
    /\ rec.level = 1
    /\ rec.tapPower = 1

C9_GetUser ==
    req.op = "getUser"
        => /\ res.status = 200
           /\ IF Has(usersPre, req.userId)
              THEN /\ users = usersPre
                   /\ res.data = <<Get(usersPre, req.userId)>>
              ELSE /\ Len(users) = Len(usersPre) + 1
                   /\ SubSeq(users, 1, Len(usersPre)) = usersPre
                   /\ IsDefaultRecord(users[Len(users)], req.userId)
                   /\ res.data = <<users[Len(users)]>>

\* a GET for a user who has coins and a name of their own
C9_Witness ==
    /\ req.op = "getUser"
    /\ Has(usersPre, req.userId)
    /\ Get(users, req.userId).userName = "Bob"
    /\ IsSum(Get(users, req.userId).coins, Num(30), 0)

(***************************************************************************)
(* C10.  validateInitData returns true whenever BOT_TOKEN is empty or no   *)
(* initData is supplied, so a POST /api/tap without initData is never      *)
(* answered 403, with or without a configured token.                       *)
(***************************************************************************)
C10_SkipValidation ==
    /\ \A d \in InitDatas : validateInitData(d, "")
    /\ \A token \in Tokens : validateInitData(NoInitData, token)
    /\ (IsTap /\ (BOT_TOKEN = "" \/ ~InitDataTruthy(req.body.initData))) => res.status # 403

\* a sync without initData accepted by a server that has a token
C10_Witness ==
    /\ Accepted
    /\ BOT_TOKEN = "tok"
    /\ req.body.initData = NoInitData


(***************************************************************************)
(* C11.  With a token configured, a payload whose hash is the one issued   *)
(* under that token for its fields passes validateInitData, whatever the   *)
(* order of the fields; the same payload with one character of the hash    *)
(* changed, or without the hash, fails it and the sync is answered 403.    *)
(***************************************************************************)
IsIssuedPayload(initData) ==
    /\ initData.entries \in FieldOrders
    /\ initData.hash # <<>>
    /\ initData.hash[1].digest = IssuedHash(BOT_TOKEN).digest

C11_SignedPayload ==
    (IsTap /\ BOT_TOKEN # "" /\ req.body.initData.entries \in FieldOrders)
        => /\ req.body.initData.hash = <<IssuedHash(BOT_TOKEN)>>
                => /\ validateInitData(req.body.initData, BOT_TOKEN)
                   /\ res.status # 403
           /\ (IsIssuedPayload(req.body.initData) /\ req.body.initData.hash[1].altered # 0)
                => /\ ~validateInitData(req.body.initData, BOT_TOKEN)
                   /\ res.status = 403
                   /\ res.error = "Invalid initData"
           /\ req.body.initData.hash = <<>>
                => /\ ~validateInitData(req.body.initData, BOT_TOKEN)
                   /\ res.status = 403
                   /\ res.error = "Invalid initData"

\* a sync whose hash has its last character changed was answered 403
C11_Witness ==
    /\ IsTap
    /\ BOT_TOKEN = "tok"
    /\ req.body.initData.hash = <<AlteredHash("tok", HexLen)>>
    /\ res.status = 403

\* C12: syncs of one user whose callbacks interleave lose no update: the user's
\* coins are the sum of the clamped deltas of the requests answered 200.
C12_NoLostUpdate ==
    \A u \in UserIds : IsSum(CoinsOf(users, u), Num(credited[u]), 0)

\* C16: a leaderboard read while syncs are being received never sees a record in
\* the middle of a merge: every entry's level is calculateLevel of its coins.
C16_LeaderboardWholeRecords ==
    req.op = "leaderboard" =>
        \A i \in 1..Len(res.data) : res.data[i].level = calculateLevel(res.data[i].coins)

\* a leaderboard answered between the 'data' and the 'end' callback of a sync,
\* listing a user past the first level threshold
C16_Witness ==
    /\ req.op = "leaderboard"
    /\ \E c \in Connections : inflight[c].open /\ inflight[c].sent > 0
    /\ Len(res.data) = 1
    /\ NumGe(res.data[1].coins, Num(Level2Coins))
    /\ res.data[1].level = 2

(***************************************************************************)
(* C13.  A POST /api/tap naming user u, whatever its answer, leaves the    *)
(* record and the rate-limit entry of every other user v as they were, so  *)
(* it never makes checkRateLimit turn down a sync of v.                    *)
(***************************************************************************)
C13_OtherUsersUntouched ==
    IsTap =>
        \A v \in UserIds \ {req.userId} :
            /\ Has(users, v) <=> Has(usersPre, v)
            /\ Has(users, v) => Get(users, v) = Get(usersPre, v)
            /\ v \in DOMAIN rateLimits <=> v \in DOMAIN rateLimitsPre
            /\ LastSync(rateLimits, v) = LastSync(rateLimitsPre, v)
            /\ checkRateLimit(rateLimits, v, req.at) = checkRateLimit(rateLimitsPre, v, req.at)

\* a sync of u1 accepted while u2 has a record and an earlier rate-limit entry
C13_Witness ==
    /\ Accepted
    /\ req.userId = "u1"
    /\ Has(users, "u2")
    /\ "u2" \in DOMAIN rateLimits
    /\ rateLimits["u2"] < req.at

(***************************************************************************)
(* C14.  On a fresh server GET /api/user/u1 returns coins 0, level 1 and   *)
(* userName "Player"; a sync of 30 coins after it is answered 200 with     *)
(* coins 30 and level 1; the same sync repeated at once is answered 429    *)
(* and coins stays 30; a sync of 9999 coins 500 ms or more after the       *)
(* accepted one is answered 200 with coins 80.                             *)
(***************************************************************************)
C14_Scenario ==
    /\ req.op = "getUser" =>
           /\ res.status = 200
           /\ res.data[1].coins = Num(0)
           /\ res.data[1].level = 1
           /\ res.data[1].userName = "Player"
    /\ (IsTap /\ req.body.coins = JNum(30) /\ CoinsOf(usersPre, "u1") = Num(0)) =>
           /\ res.status = 200
           /\ res.data[1].coins = Num(30)
           /\ res.data[1].level = 1
    /\ (IsTap /\ req.body.coins = JNum(30) /\ CoinsOf(usersPre, "u1") = Num(30)) =>
           /\ res.status = 429
           /\ CoinsOf(users, "u1") = Num(30)
    /\ (IsTap /\ req.body.coins = JNum(9999)) =>
           /\ res.status = 200
           /\ res.data[1].coins = Num(80)

\* the end of the scenario, the last sync exactly one cooldown after the first
C14_Witness ==
    /\ IsTap
    /\ req.body.coins = JNum(9999)
    /\ res.status = 200
    /\ Len(okTimes["u1"]) = 2
    /\ okTimes["u1"][2] - okTimes["u1"][1] = CooldownMs
    /\ CoinsOf(users, "u1") = Num(80)

(***************************************************************************)
(* C15.  GET /api/leaderboard changes neither the users Map nor the        *)
(* rateLimits Map, and every entry it returns has the userId, userName,    *)
(* coins and level of a record held at the moment of the call.             *)
(***************************************************************************)
C15_LeaderboardReadOnly ==
    req.op = "leaderboard" =>
        /\ users = usersPre
        /\ rateLimits = rateLimitsPre
        /\ \A i \in 1..Len(res.data) : \E j \in 1..Len(usersPre) :
               res.data[i] = [userId |-> usersPre[j].userId, userName |-> usersPre[j].userName,
                              coins |-> usersPre[j].coins, level |-> usersPre[j].level]

\* a leaderboard that lists the second record of the Map first
C15_Witness ==
    /\ req.op = "leaderboard"
    /\ Len(users) = 2
    /\ Len(res.data) = 2
    /\ res.data[1].userId = users[2].userId
    /\ res.data[1].userName = "Bob"

(***************************************************************************)
(* C17.  A valid sync of user u handled 500 ms or more after u's last      *)
(* accepted sync, or when u has none, is admitted (answered 200), however  *)
(* many 429 answers u got in between: a 429 leaves the rateLimits Map as   *)
(* it was.                                                                 *)
(***************************************************************************)
CooldownOver ==
    /\ OtherwiseValid
    /\ \A i \in 1..Len(OkBefore(req.userId)) : req.at - OkBefore(req.userId)[i] >= CooldownMs

C17_AdmittedAfterCooldown ==
    /\ CooldownOver => res.status = 200
    /\ (IsTap /\ res.status = 429) => rateLimits = rateLimitsPre

\* the second accepted sync, exactly one cooldown after the first, with MaxRetries
\* throttled attempts in between
C17_Witness ==
    /\ CooldownOver
    /\ Accepted
    /\ Len(okTimes["u1"]) = 2
    /\ okTimes["u1"][2] - okTimes["u1"][1] = CooldownMs
    /\ throttled["u1"] = MaxRetries

C19_UserName ==
    /\ Accepted =>
           Get(users, req.userId).userName =
               IF req.body.userName # "" THEN req.body.userName
               ELSE IF Has(usersPre, req.userId) THEN Get(usersPre, req.userId).userName
               ELSE "Player"
    /\ Len(users) >= Len(usersPre)
    /\ \A i \in 1..Len(usersPre) : /\ users[i].userId = usersPre[i].userId
                                    /\ users[i].tapPower = usersPre[i].tapPower

\* a sync without a userName accepted for a user named by an earlier sync
C19_Witness ==
    /\ Accepted
    /\ req.body.userName = ""
    /\ Has(usersPre, req.userId)
    /\ Get(usersPre, req.userId).userName = "Bob"
    /\ Get(users, req.userId).userName = "Bob"

(***************************************************************************)
(* C20.  Every record has totalTaps = coins.                               *)
(* A record that C5's non-numeric coins value has reached holds NaN in     *)
(* both fields, and NaN equals nothing, itself included.                   *)
(***************************************************************************)
C20_TotalTapsIsCoins ==
    \A i \in 1..Len(users) : IsSum(users[i].totalTaps, users[i].coins, 0)

====
